---------------------------- MODULE Spec2Model ----------------------------
(***************************************************************************)
(* accent.js: the three-round accent-colour pipeline, its analyzer, its    *)
(* consolidator and its file cache.                                        *)
(*                                                                         *)
(* Representation.                                                         *)
(*  - A Spectra colour is its rgbNumber.  The RGB line 0 .. 0xffffff is    *)
(*    shrunk to 0 .. RGBMax; black is 0 and white is RGBMax.               *)
(*  - A hex string "#rrggbb" is the sequence of its six hex digits.        *)
(*  - Real numbers are fixed point: a measured Delta E d is the integer    *)
(*    d * Unit, so that a median of medians of measurements is exact.      *)
(*    Literals of the source compared with a Delta E are written n * Unit. *)
(*  - The colour mathematics of the libraries (spectra, delta-e,           *)
(*    wcag-contrast) is the state variable math: tables over the colours.  *)
(*    The pipeline runs on one fixed table set (DefaultMath); the checks   *)
(*    of single functions draw the tables from bounded sets.               *)
(*  - A thrown error is a result record with ok = FALSE.                   *)
(***************************************************************************)
EXTENDS Integers, Sequences, FiniteSets, TLC

VARIABLES
    math,           \* colour mathematics of the external libraries
    pc,             \* position of the script (or "unit" in a function check)
    baseColors,     \* line 55
    pantoneColors,  \* line 159
    cache,          \* the cache-<id>.json files on disk
    stats,          \* lines 75-78, 94: refMin*, refMaxLuma, refDeltaE
    classified,     \* line 142, 146, 164
    refBaseDelta,   \* line 162
    obs,            \* observations of the run (history, not program state)
    call            \* the call under check in a single-function specification

vars == <<math, pc, baseColors, pantoneColors, cache, stats, classified,
          refBaseDelta, obs, call>>

----------------------------------------------------------------------------
(* Bounds *)

RGBMax == 9
MaxBase == 5
MaxPantone == 4
MaxCached == 1
MaxArr == 4
MaxRef == 2
MaxCalls == 3
MaxSamplerBase == 3

\* Fixed-point scale: two nested medians of integers are multiples of 1/4.
Unit == 2 * 2

Colors == 0 .. RGBMax

----------------------------------------------------------------------------
(* Sequences and numbers *)

Abs(x) == IF x < 0 THEN -x ELSE x

MinOf2(a, b) == IF a < b THEN a ELSE b

Range(s) == {s[i] : i \in 1 .. Len(s)}

RECURSIVE Flatten(_)
Flatten(ss) == IF ss = <<>> THEN <<>> ELSE Head(ss) \o Flatten(Tail(ss))

\* All sequences over S of length at most n.
SeqsUpTo(S, n) == UNION {[1 .. k -> S] : k \in 0 .. n}

RECURSIVE InsertNum(_, _)
InsertNum(x, s) ==
    IF s = <<>> THEN <<x>>
    ELSE IF x < Head(s) THEN <<x>> \o s
    ELSE <<Head(s)>> \o InsertNum(x, Tail(s))

RECURSIVE SortNums(_)
SortNums(s) == IF s = <<>> THEN <<>> ELSE InsertNum(Head(s), SortNums(Tail(s)))

Ok(v) == [ok |-> TRUE, val |-> v]
Raise == [ok |-> FALSE, val |-> <<>>]

\* math.median: throws on an empty array; the middle value, or the mean of the
\* two middle values.
mathMedian(s) ==
    IF s = <<>> THEN Raise
    ELSE LET t == SortNums(s)
             n == Len(t)
             mid == n \div 2
         IN  IF n % 2 = 0 THEN Ok((t[mid] + t[mid + 1]) \div 2) ELSE Ok(t[mid + 1])

\* math.min and math.max: throw on an empty array.
mathMin(s) == IF s = <<>> THEN Raise ELSE Ok(SortNums(s)[1])

mathMax(s) == IF s = <<>> THEN Raise ELSE Ok(SortNums(s)[Len(s)])

\* Array.prototype.indexOf on a value the array holds.
indexOf(s, v) == CHOOSE i \in 1 .. Len(s) : s[i] = v /\ \A k \in 1 .. (i - 1) : s[k] # v

----------------------------------------------------------------------------
(* Hex strings *)

RECURSIVE toString16(_)
toString16(n) == IF n < 16 THEN <<n>> ELSE toString16(n \div 16) \o <<n % 16>>

RECURSIVE padHex(_)
padHex(hex) == IF Len(hex) < 6 THEN padHex(<<0>> \o hex) ELSE hex

\* Lines 242-246.
rgbNumberToHex(rgbNumber) == padHex(toString16(rgbNumber))

\* Spectra(hexString): the colour a hex string denotes.
RECURSIVE Spectra(_)
Spectra(hex) ==
    IF hex = <<>> THEN 0 ELSE 16 * Spectra(SubSeq(hex, 1, Len(hex) - 1)) + hex[Len(hex)]

\* color.hex()
hexOf(color) == padHex(toString16(color))

\* Line 192: the colours of a list of hex strings.
spectraOf(hexes) == [i \in 1 .. Len(hexes) |-> Spectra(hexes[i])]

\* Line 315: the hex strings of a list of colours.
hexesOf(colors) == [i \in 1 .. Len(colors) |-> hexOf(colors[i])]

\* JavaScript's string order.
RECURSIVE StrLess(_, _)
StrLess(a, b) ==
    IF b = <<>> THEN FALSE
    ELSE IF a = <<>> THEN TRUE
    ELSE IF Head(a) # Head(b) THEN Head(a) < Head(b)
    ELSE StrLess(Tail(a), Tail(b))

RECURSIVE InsertStr(_, _)
InsertStr(x, s) ==
    IF s = <<>> THEN <<x>>
    ELSE IF StrLess(x, Head(s)) THEN <<x>> \o s
    ELSE <<Head(s)>> \o InsertStr(x, Tail(s))

\* Array.prototype.sort() without a comparator: by the elements' strings.
RECURSIVE sortStrings(_)
sortStrings(s) == IF s = <<>> THEN <<>> ELSE InsertStr(Head(s), sortStrings(Tail(s)))

\* arr.sort() on colours (line 315): by their strings, the hex codes (line 66
\* indexes baseColorsData, keyed by hex(), with the colour itself).
sortColors(arr) == spectraOf(sortStrings(hexesOf(arr)))

\* Lines 191-201: the JSON array of hex strings, sorted, as colours.
loadColorsFile(json) == spectraOf(sortStrings(json))

----------------------------------------------------------------------------
(* Colour mathematics (external libraries) *)

black == 0
white == RGBMax

\* The tables of the pipeline: a grey ramp.  Delta E grows with the square of
\* the RGB distance (neighbours are closer than 2) up to 100; luma is linear;
\* the contrast against white falls from 21 to 1 and the contrast against
\* black rises from 1 to 21.
DefaultDelta(a, b) ==
    LET k == Abs(a - b) IN IF k = 0 THEN 0 ELSE Unit * MinOf2(100, 2 * k * k - 1)

DefaultLuma(c) == (255 * c) \div RGBMax

DefaultWhiteContrast(c) == 21 - (20 * c) \div RGBMax

DefaultBlackContrast(c) == 1 + (20 * c) \div RGBMax

\* math holds the measurements that differ from the grey ramp: none in a run
\* of the script.
DefaultMath == [deltaE |-> <<>>, luma |-> <<>>, whiteContrast |-> <<>>, blackContrast |-> <<>>]

\* DeltaE.getDeltaE00(toLab(a), toLab(b))
getDeltaE00(a, b) ==
    IF <<a, b>> \in DOMAIN math.deltaE THEN math.deltaE[<<a, b>>] ELSE DefaultDelta(a, b)

\* color.luma()
luma(color) ==
    IF color \in DOMAIN math.luma THEN math.luma[color] ELSE DefaultLuma(color)

\* Contrast.hex(colorHex, '#ffffff') and Contrast.hex(colorHex, '#000000')
ContrastHex(color, other) ==
    IF other = white
    THEN (IF color \in DOMAIN math.whiteContrast THEN math.whiteContrast[color]
          ELSE DefaultWhiteContrast(color))
    ELSE (IF color \in DOMAIN math.blackContrast THEN math.blackContrast[color]
          ELSE DefaultBlackContrast(color))

----------------------------------------------------------------------------
(* accent.js: the functions *)

InitialStats ==
    [refMinBlackDeltaE |-> 100 * Unit, refMinWhiteDeltaE |-> 100 * Unit,
     refMinLuma |-> 255, refMaxLuma |-> 0, refDeltaE |-> 0]

NoRef == [given |-> FALSE, value |-> 0, margin |-> 0]

\* between with the comparisons of a closed range.
betweenClosed(value, minimum, maximum, ref) ==
    LET refLow == 100 * ref.value - ref.value * ref.margin
        refHigh == 100 * ref.value + ref.value * ref.margin
        low == IF ref.given /\ ~(refLow < 100 * minimum) THEN refLow ELSE 100 * minimum
        high == IF ref.given /\ ~(refHigh > 100 * maximum) THEN refHigh ELSE 100 * maximum
    IN  (100 * value >= low) /\ (100 * value <= high)

\* Lines 224-240.  The margin is a percentage: both sides are taken times 100.
between(value, minimum, maximum, ref) ==
    LET refLow == 100 * ref.value - ref.value * ref.margin
        refHigh == 100 * ref.value + ref.value * ref.margin
        low == IF ref.given /\ ~(refLow < 100 * minimum) THEN refLow ELSE 100 * minimum
        high == IF ref.given /\ ~(refHigh > 100 * maximum) THEN refHigh ELSE 100 * maximum
    IN  (100 * value > low) /\ (100 * value < high)

Undefined == [present |-> FALSE, color |-> 0]
Present(color) == [present |-> TRUE, color |-> color]

\* Lines 110-134.
analyze(rgbNumber) ==
    LET color == Spectra(rgbNumberToHex(rgbNumber))
    IN  IF ~between(ContrastHex(color, white), 3, 21, NoRef) THEN Undefined
        ELSE IF ~between(ContrastHex(color, black), 3, 21, NoRef) THEN Undefined
        ELSE IF ~between(getDeltaE00(color, white), stats.refMinWhiteDeltaE, 100 * Unit, NoRef)
             THEN Undefined
        ELSE IF ~between(getDeltaE00(color, black), stats.refMinBlackDeltaE, 100 * Unit, NoRef)
             THEN Undefined
        ELSE IF ~between(luma(color), stats.refMinLuma, stats.refMaxLuma, NoRef) THEN Undefined
        ELSE Present(color)

\* Line 138: threshold || refDeltaE.
effectiveThreshold(threshold) == IF threshold # 0 THEN threshold ELSE stats.refDeltaE

\* Lines 136-139.
hasGoodDeltaAll(color, arr, threshold) ==
    ~ \E i \in 1 .. Len(arr) : getDeltaE00(color, arr[i]) < effectiveThreshold(threshold)

\* Lines 218-222.
tooClose(currentRGBNumber, barrierColor) ==
    LET color == Spectra(rgbNumberToHex(currentRGBNumber))
    IN  getDeltaE00(color, barrierColor) < 2 * Unit

\* Math.floor in the place of Math.round.
floorHalf(d) == d \div 2

\* Math.round on a half-integer d / 2.
roundHalf(d) == (d + 1) \div 2

\* Line 281.
samplesOf(start, end) == roundHalf(end - start)

\* Lines 284-290: the values handed to analyze from offset j on.
RECURSIVE expand(_, _, _, _)
expand(middle, start, samples, j) ==
    IF ~(j < samples) THEN <<>>
    ELSE IF tooClose(middle - j, start) THEN <<>>
    ELSE <<middle + j, middle - j>> \o expand(middle, start, samples, j + 1)

\* Lines 281-290: the values handed to analyze for one pair, in order.
pairSamples(start, end) ==
    LET samples == samplesOf(start, end)
        middle == start + samples
    IN  <<middle>> \o expand(middle, start, samples, 1)

\* Lines 265-273.
withSentinels(base) ==
    IF Len(base) > 0
    THEN LET c1 == IF hexOf(base[1]) # hexOf(black) THEN <<black>> \o base ELSE base
         IN  IF hexOf(c1[Len(c1)]) # hexOf(white) THEN c1 \o <<white>> ELSE c1
    ELSE base

\* Lines 275-291: per adjacent pair, the values analyzed.
analyzerTrace(base) ==
    LET colors == withSentinels(base)
    IN  [i \in 1 .. (Len(colors) - 1) |->
            [start |-> colors[i], end |-> colors[i + 1],
             seq |-> pairSamples(colors[i], colors[i + 1])]]

\* Lines 264-293.
runAnalyzer(base) ==
    LET trace == analyzerTrace(base)
        all == Flatten([i \in 1 .. Len(trace) |-> trace[i].seq])
        accepted == SelectSeq(all, LAMBDA n : analyze(n).present)
    IN  [i \in 1 .. Len(accepted) |-> analyze(accepted[i]).color]

\* Lines 295-300.
adjustDelta(source, ref) ==
    IF source # <<>> /\ ref = <<>> THEN Raise
    ELSE mathMedian([i \in 1 .. Len(source) |->
                        mathMin([k \in 1 .. Len(ref) |-> getDeltaE00(source[i], ref[k])]).val])

\* Lines 316-329: the groups closed by the loop, from index i on.
RECURSIVE groupLoop(_, _, _, _, _)
groupLoop(arr, i, group, groups, refDelta) ==
    IF ~(i <= Len(arr)) THEN groups
    ELSE LET pushed == Append(group, arr[i])
         IN  IF i + 1 > Len(arr) THEN groups
             ELSE IF getDeltaE00(arr[i], arr[i + 1]) > refDelta
                  THEN groupLoop(arr, i + 2, <<arr[i + 1]>>, Append(groups, pushed), refDelta)
                  ELSE groupLoop(arr, i + 2, Append(pushed, arr[i + 1]), groups, refDelta)

\* representative reading the reference list where it should read the group.
representativeOfRef(group, ref) ==
    LET deltas == [j \in 1 .. Len(group) |->
                      mathMedian([k \in 1 .. Len(ref) |-> getDeltaE00(group[j], ref[k])]).val]
    IN  ref[MinOf2(indexOf(deltas, mathMax(deltas).val), Len(ref))]

\* Lines 333-341: the member with the largest median Delta E to ref.
representative(group, ref) ==
    LET deltas == [j \in 1 .. Len(group) |->
                      mathMedian([k \in 1 .. Len(ref) |-> getDeltaE00(group[j], ref[k])]).val]
    IN  group[indexOf(deltas, mathMax(deltas).val)]

\* Lines 311-345.
consolidate(arr, ref, refDelta) ==
    LET sorted == sortColors(arr)
        groups == groupLoop(sorted, 1, <<>>, <<>>, refDelta)
    IN  IF groups # <<>> /\ ref = <<>> THEN Raise
        ELSE Ok([i \in 1 .. Len(groups) |-> representative(groups[i], ref)])

\* Lines 147-154: raw of the second round's callback.
secondRaw(source, ref, refDelta) ==
    SelectSeq(source, LAMBDA color : hasGoodDeltaAll(color, ref, refDelta))

\* Lines 302-309 with the callback of lines 146-156.
runRoundSecond(source, ref) ==
    LET refDelta == adjustDelta(source, ref)
    IN  IF ~refDelta.ok THEN Raise
        ELSE consolidate(secondRaw(source, ref, refDelta.val), ref, 49 * Unit)

\* Lines 165-178: raw of the third round's callback.
thirdRaw(ref, refDelta) ==
    LET kept == SelectSeq(ref, LAMBDA c :
                    /\ analyze(c).present
                    /\ hasGoodDeltaAll(analyze(c).color, baseColors, refBaseDelta)
                    /\ hasGoodDeltaAll(analyze(c).color, classified, refDelta))
    IN  [i \in 1 .. Len(kept) |-> analyze(kept[i]).color]

\* Lines 302-309 with the callback of lines 164-182.
runRoundThird(source, ref) ==
    LET refDelta == adjustDelta(source, ref)
    IN  IF ~refDelta.ok THEN Raise
        ELSE LET tmp == consolidate(thirdRaw(ref, refDelta.val), baseColors, 5 * Unit)
             IN  IF ~tmp.ok THEN Raise ELSE consolidate(tmp.val, tmp.val, 5 * Unit)

\* The running minimum and maximum of lines 80-84, 87-91, 99-106.
RECURSIVE runningMin(_, _)
runningMin(ref, values) ==
    IF values = <<>> THEN ref
    ELSE runningMin(IF Head(values) < ref THEN Head(values) ELSE ref, Tail(values))

RECURSIVE runningMax(_, _)
runningMax(ref, values) ==
    IF values = <<>> THEN ref
    ELSE runningMax(IF Head(values) > ref THEN Head(values) ELSE ref, Tail(values))

\* calcMedian's map (line 204): the Delta E of each colour to a reference.
deltasTo(colors, ref) == [i \in 1 .. Len(colors) |-> getDeltaE00(colors[i], ref)]

\* Lines 99-105: the luma of each colour.
lumasOf(colors) == [i \in 1 .. Len(colors) |-> luma(colors[i])]

\* Line 63: the colours whose measure updates the running values.
related(base) ==
    SelectSeq(base, LAMBDA c : hexOf(c) # hexOf(black) /\ hexOf(c) # hexOf(white))

\* Lines 94-96.
medianPairwise(base) ==
    mathMedian([i \in 1 .. Len(base) |->
                   mathMedian([k \in 1 .. Len(base) |-> getDeltaE00(base[i], base[k])]).val])

\* Lines 75-108; calcMedian (lines 203-205) throws on an empty base list.
statistics(base) ==
    IF ~mathMedian(deltasTo(base, black)).ok THEN Raise
    ELSE Ok([refMinBlackDeltaE |->
                 runningMin(InitialStats.refMinBlackDeltaE,
                            deltasTo(related(base), black)),
             refMinWhiteDeltaE |->
                 runningMin(InitialStats.refMinWhiteDeltaE,
                            deltasTo(related(base), white)),
             refMinLuma |-> runningMin(InitialStats.refMinLuma, lumasOf(related(base))),
             refMaxLuma |-> runningMax(InitialStats.refMaxLuma, lumasOf(related(base))),
             refDeltaE |-> medianPairwise(base).val])

(* The cache files *)

RoundIds == {"first", "second", "third"}

NoFile == [exists |-> FALSE, data |-> <<>>]

\* JSON.stringify(result), line 260: one object with a color field per colour.
stringify(result) == [i \in 1 .. Len(result) |-> [color |-> hexOf(result[i])]]

\* Lines 252-255.
parseCache(data) == [i \in 1 .. Len(data) |-> Spectra(data[i].color)]

\* memoize without the test for an existing file.
memoizeAlways(files, id, computed) ==
    IF ~computed.ok
    THEN [ok |-> FALSE, val |-> <<>>, files |-> files, invoked |-> TRUE]
    ELSE [ok |-> TRUE, val |-> computed.val,
          files |-> [files EXCEPT ![id] = [exists |-> TRUE, data |-> stringify(computed.val)]],
          invoked |-> TRUE]

\* Lines 248-262.  computed is the callback's result (or its error), used
\* only when no file exists.
memoize(files, id, computed) ==
    IF files[id].exists
    THEN [ok |-> TRUE, val |-> parseCache(files[id].data), files |-> files,
          invoked |-> FALSE]
    ELSE IF ~computed.ok
         THEN [ok |-> FALSE, val |-> <<>>, files |-> files, invoked |-> TRUE]
         ELSE [ok |-> TRUE, val |-> computed.val,
               files |-> [files EXCEPT ![id] = [exists |-> TRUE, data |-> stringify(computed.val)]],
               invoked |-> TRUE]

----------------------------------------------------------------------------
(* The run of the script *)

NoObs ==
    [computed |-> {}, trace1 |-> <<>>, result1 |-> <<>>, source2 |-> <<>>, refDelta2 |-> 0,
     raw2 |-> <<>>, errAt |-> "none"]

NoCall == [op |-> "none"]

\* Sequences over S of length at most n, written in descending order: the
\* JSON files as the user wrote them, which loadColorsFile sorts.
DescendingUpTo(S, n) ==
    {s \in SeqsUpTo(S, n) : \A i \in 1 .. (Len(s) - 1) : s[i] >= s[i + 1]}

StrictlyDescendingUpTo(S, n) ==
    {s \in SeqsUpTo(S, n) : \A i \in 1 .. (Len(s) - 1) : s[i] > s[i + 1]}

\* The base colours and the palette colours the runs draw from.
BaseChoice == {black, 1, 2, 3, RGBMax - 1, white}
PantoneChoice == {2, 4, 5, 7}
StaleChoice == {1, 2}

File(colors) == [exists |-> TRUE, data |-> stringify(colors)]

FreshCache == [id \in RoundIds |-> NoFile]

\* The cache directory at the start of a run: empty, or holding one file an
\* earlier run (of another base-colors.json) left.
StartCaches ==
    {FreshCache} \cup
    {[FreshCache EXCEPT ![id] = File(colors)] :
        id \in RoundIds, colors \in SeqsUpTo(StaleChoice, MaxCached)}

\* Lines 53-57: the script starts with the base colours loaded.
Init ==
    /\ math = DefaultMath
    /\ pc = "stats"
    /\ \E json \in DescendingUpTo(BaseChoice, MaxBase) :
           baseColors = loadColorsFile(hexesOf(json))
    /\ \E json \in StrictlyDescendingUpTo(PantoneChoice, MaxPantone) :
           pantoneColors = loadColorsFile(hexesOf(json))
    /\ cache \in StartCaches
    /\ stats = InitialStats
    /\ classified = <<>>
    /\ refBaseDelta = 0
    /\ obs = NoObs
    /\ call = NoCall

\* Lines 75-108.
Statistics ==
    /\ pc = "stats"
    /\ LET r == statistics(baseColors)
       IN  IF r.ok
           THEN /\ stats' = r.val
                /\ pc' = "first"
                /\ obs' = obs
           ELSE /\ stats' = stats
                /\ pc' = "error"
                /\ obs' = [obs EXCEPT !.errAt = "stats"]
    /\ UNCHANGED <<math, baseColors, pantoneColors, cache, classified, refBaseDelta, call>>

\* Lines 141-143.
FirstRound ==
    /\ pc = "first"
    /\ LET m == memoize(cache, "first", Ok(runAnalyzer(baseColors)))
       IN  /\ classified' = m.val
           /\ cache' = m.files
           /\ obs' = IF m.invoked
                     THEN [obs EXCEPT !.computed = @ \cup {"first"},
                                      !.trace1 = analyzerTrace(baseColors),
                                      !.result1 = m.val]
                     ELSE obs
    /\ pc' = "second"
    /\ UNCHANGED <<math, baseColors, pantoneColors, stats, refBaseDelta, call>>

\* Lines 145-157.
SecondRound ==
    /\ pc = "second"
    /\ LET m == memoize(cache, "second", runRoundSecond(classified, baseColors))
           refDelta == adjustDelta(classified, baseColors)
       IN  IF m.ok
           THEN /\ classified' = m.val
                /\ cache' = m.files
                /\ pc' = "adjust"
                /\ obs' = IF m.invoked
                          THEN [obs EXCEPT
                                   !.computed = @ \cup {"second"},
                                   !.source2 = classified,
                                   !.refDelta2 = refDelta.val,
                                   !.raw2 = secondRaw(classified, baseColors, refDelta.val)]
                          ELSE obs
           ELSE /\ UNCHANGED <<classified, cache>>
                /\ pc' = "error"
                /\ obs' = [obs EXCEPT !.errAt = "second"]
    /\ UNCHANGED <<math, baseColors, pantoneColors, stats, refBaseDelta, call>>

\* Lines 159-163.
AdjustBase ==
    /\ pc = "adjust"
    /\ LET r == adjustDelta(classified, baseColors)
       IN  IF r.ok
           THEN /\ refBaseDelta' = r.val
                /\ pc' = "third"
                /\ obs' = obs
           ELSE /\ refBaseDelta' = refBaseDelta
                /\ pc' = "error"
                /\ obs' = [obs EXCEPT !.errAt = "adjust"]
    /\ UNCHANGED <<math, baseColors, pantoneColors, cache, stats, classified, call>>

\* Lines 164-183.
ThirdRound ==
    /\ pc = "third"
    /\ LET m == memoize(cache, "third", runRoundThird(classified, pantoneColors))
       IN  IF m.ok
           THEN /\ classified' = m.val
                /\ cache' = m.files
                /\ pc' = "print"
                /\ obs' = IF m.invoked
                          THEN [obs EXCEPT !.computed = @ \cup {"third"}]
                          ELSE obs
           ELSE /\ UNCHANGED <<classified, cache>>
                /\ pc' = "error"
                /\ obs' = [obs EXCEPT !.errAt = "third"]
    /\ UNCHANGED <<math, baseColors, pantoneColors, stats, refBaseDelta, call>>

\* Lines 185-187.
PrintColors ==
    /\ pc = "print"
    /\ pc' = "done"
    /\ UNCHANGED <<math, baseColors, pantoneColors, cache, stats, classified,
                   refBaseDelta, obs, call>>

Next ==
    \/ Statistics
    \/ FirstRound
    \/ SecondRound
    \/ AdjustBase
    \/ ThirdRound
    \/ PrintColors

Spec == Init /\ [][Next]_vars

----------------------------------------------------------------------------
(* Claims about the run *)

HexSet(colors) == {hexOf(colors[i]) : i \in 1 .. Len(colors)}

\* C4: when round 3 is computed, the final selected set holds no colour whose
\* hex is the hex of a base colour.
C4_NoBaseColorSelected ==
    ("third" \in obs.computed /\ pc \in {"print", "done"})
        => HexSet(classified) \cap HexSet(baseColors) = {}

\* C7: when round 1 computes an empty candidate set, rounds 2 and 3 raise no
\* error and the run ends with an empty final set.
C7_EmptyRoundOneTolerated ==
    ("first" \in obs.computed /\ obs.result1 = <<>>)
        => /\ pc # "error"
           /\ (pc = "done" => classified = <<>>)

\* C8: with zero or one base colour the run reaches round 1 without an error
\* and round 1 computes an empty candidate set.
C8_FewBaseColors ==
    Len(baseColors) <= 1
        => /\ obs.errAt # "stats"
           /\ ("first" \in obs.computed => obs.result1 = <<>>)

\* C10: in round 2 (computed on the candidates round 1 computed) a candidate
\* is handed to the consolidator if and only if its Delta E to every base
\* colour is at least refDelta, for every value of refDelta, 0 included.
C10_FilterUsesRefDelta ==
    {"first", "second"} \subseteq obs.computed
        => obs.raw2 = SelectSeq(obs.source2, LAMBDA color :
                          \A k \in 1 .. Len(baseColors) :
                              getDeltaE00(color, baseColors[k]) >= obs.refDelta2)

----------------------------------------------------------------------------
(* Round 1 alone: the script up to line 143, on a fresh cache directory *)

\* One colour c (or none, c = RGBMax) whose second neighbour c + 2 measures a
\* Delta E of 1 to it, so that the expansion stops at several offsets.
NearMath(c) ==
    IF c + 2 > RGBMax THEN DefaultMath
    ELSE [DefaultMath EXCEPT !.deltaE = [p \in {<<c, c + 2>>, <<c + 2, c>>} |-> 1 * Unit]]

InitSampler ==
    /\ \E c \in Colors : math = NearMath(c)
    /\ pc = "stats"
    /\ \E json \in SeqsUpTo(Colors, MaxSamplerBase) :
           baseColors = loadColorsFile(hexesOf(json))
    /\ pantoneColors = <<>>
    /\ cache = FreshCache
    /\ stats = InitialStats
    /\ classified = <<>>
    /\ refBaseDelta = 0
    /\ obs = NoObs
    /\ call = NoCall

NextSampler ==
    \/ Statistics
    \/ FirstRound

SpecSampler == InitSampler /\ [][NextSampler]_vars

\* The offset at which the expansion of a pair stops: the first j with
\* middle - j closer than 2 to start (offset samples, where middle - j is
\* start itself, at the latest).  For two equal colours only middle is analyzed.
StopOffset(start, middle, samples) ==
    IF samples < 1 THEN 1
    ELSE CHOOSE j \in 1 .. samples :
             /\ tooClose(middle - j, start)
             /\ \A k \in 1 .. (j - 1) : ~tooClose(middle - k, start)

\* The values analyzed for a pair are middle, then middle + j, middle - j for
\* j = 1, 2, ... below the stop offset.
ExpansionAround(r, middle, samples) ==
    LET stop == StopOffset(r.start, middle, samples)
    IN  /\ Len(r.seq) = 2 * stop - 1
        /\ r.seq[1] = middle
        /\ \A j \in 1 .. (stop - 1) :
               /\ r.seq[2 * j] = middle + j
               /\ r.seq[2 * j + 1] = middle - j

TracePairs ==
    /\ Len(obs.trace1) = (IF baseColors = <<>> THEN 0 ELSE Len(withSentinels(baseColors)) - 1)
    /\ \A i \in 1 .. Len(obs.trace1) :
           /\ obs.trace1[i].start = withSentinels(baseColors)[i]
           /\ obs.trace1[i].end = withSentinels(baseColors)[i + 1]

\* C9 (as written): the first value analyzed for a pair is
\* start + floor((end - start) / 2), and the expansion runs around it.
C9_FloorMidpoint ==
    "first" \in obs.computed
        => \A i \in 1 .. Len(obs.trace1) :
               LET r == obs.trace1[i]
                   half == (r.end - r.start) \div 2
               IN  ExpansionAround(r, r.start + half, half)

\* C9 (amended): for every adjacent pair of the sentinel-extended base list the
\* first value analyzed is m = start + round((end - start) / 2), halves rounded
\* up, and the values after it are m + j then m - j for j = 1, 2, ..., ending
\* before the first j at which m - j is within Delta E < 2 of start.
C9_RoundedMidpoint ==
    "first" \in obs.computed
        => /\ TracePairs
           /\ \A i \in 1 .. Len(obs.trace1) :
                  LET r == obs.trace1[i]
                      d == r.end - r.start
                      samples == IF d % 2 = 0 THEN d \div 2 ELSE d \div 2 + 1
                  IN  ExpansionAround(r, r.start + samples, samples)

\* A pair with an odd difference whose expansion stopped on tooClose, two
\* offsets or more before the loop bound.
C9_Witness ==
    /\ "first" \in obs.computed
    /\ \E i \in 1 .. Len(obs.trace1) :
           LET r == obs.trace1[i]
           IN  /\ (r.end - r.start) % 2 = 1
               /\ Len(r.seq) >= 3
               /\ Len(r.seq) < 2 * samplesOf(r.start, r.end) - 3

----------------------------------------------------------------------------
(* consolidate alone *)

Palette == {1, 2, 3}

\* Delta E values below the cutoff 5, between the cutoffs, and above 49.
DeltaLevels == {1 * Unit, 6 * Unit, 50 * Unit}

CutOffs == {5 * Unit, 49 * Unit}

PalettePairs == {p \in Palette \X Palette : p[1] < p[2]}

\* A symmetric Delta E table over the palette, 0 between a colour and itself.
PaletteMath(d) ==
    [DefaultMath EXCEPT !.deltaE =
        [p \in Palette \X Palette |->
            IF p[1] = p[2] THEN 0
            ELSE IF p[1] < p[2] THEN d[p] ELSE d[<<p[2], p[1]>>]]]

InitConsolidate ==
    /\ \E d \in [PalettePairs -> DeltaLevels] : math = PaletteMath(d)
    /\ pc = "unit"
    /\ baseColors = <<>>
    /\ pantoneColors = <<>>
    /\ cache = FreshCache
    /\ stats = InitialStats
    /\ classified = <<>>
    /\ refBaseDelta = 0
    /\ obs = NoObs
    /\ \E arr \in SeqsUpTo(Palette, MaxArr), ref \in SeqsUpTo(Palette, MaxRef),
          refDelta \in CutOffs :
           call = [op |-> "consolidate", arr |-> arr, ref |-> ref, refDelta |-> refDelta,
                   done |-> FALSE, result |-> Raise]

ConsolidateCall ==
    /\ call.op = "consolidate"
    /\ ~call.done
    /\ call' = [call EXCEPT !.done = TRUE,
                            !.result = consolidate(call.arr, call.ref, call.refDelta)]
    /\ UNCHANGED <<math, pc, baseColors, pantoneColors, cache, stats, classified,
                   refBaseDelta, obs>>

SpecConsolidate == InitConsolidate /\ [][ConsolidateCall]_vars

ConsolidateReturned == call.op = "consolidate" /\ call.done /\ call.ref # <<>>

\* The group of position i of the sorted list: neighbours are in different
\* groups exactly when their Delta E exceeds the threshold.
GroupOf(sorted, i, threshold) ==
    1 + Cardinality({k \in 1 .. (i - 1) : getDeltaE00(sorted[k], sorted[k + 1]) > threshold})

\* C1: consolidate returns exactly one representative per group of the sorted
\* candidate list, so a non-empty input gives a non-empty output.
C1_OnePerGroup ==
    ConsolidateReturned
        => LET sorted == sortColors(call.arr)
               n == IF sorted = <<>> THEN 0 ELSE GroupOf(sorted, Len(sorted), call.refDelta)
           IN  /\ call.result.ok
               /\ Len(call.result.val) = n
               /\ \A g \in 1 .. n :
                      \E i \in 1 .. Len(sorted) :
                          /\ GroupOf(sorted, i, call.refDelta) = g
                          /\ call.result.val[g] = sorted[i]

\* C5: a set whose members are pairwise farther apart than the threshold is
\* returned unchanged.
C5_Idempotent ==
    (/\ ConsolidateReturned
     /\ \A i, k \in 1 .. Len(call.arr) :
            i # k => getDeltaE00(call.arr[i], call.arr[k]) > call.refDelta)
        => /\ call.result.ok
           /\ call.result.val = sortColors(call.arr)

\* C6: with a non-empty reference every colour returned is one of the
\* candidates, and no more colours are returned than there are candidates.
C6_SubsetOfCandidates ==
    ConsolidateReturned
        => /\ call.result.ok
           /\ Range(call.result.val) \subseteq Range(call.arr)
           /\ Len(call.result.val) <= Len(call.arr)

\* Two groups were closed and two representatives returned.
C6_Witness ==
    /\ ConsolidateReturned
    /\ call.result.ok
    /\ Len(call.result.val) = 2

----------------------------------------------------------------------------
(* analyze alone *)

AnalyzeChoice == {3, 6}

\* Measurements below, on and inside the bands.
ContrastLevels == {1, 3, 7, 21}
DeltaMeasures == {30 * Unit, 50 * Unit, 70 * Unit, 100 * Unit}
DeltaMinima == {50 * Unit, InitialStats.refMinBlackDeltaE}
LumaMeasures == {0, 100, 150, 200, 255}
LumaBands == {<<InitialStats.refMinLuma, InitialStats.refMaxLuma>>, <<100, 200>>, <<100, 100>>}

\* The measurements of one colour.
MeasuredMath(c, wc, bc, wd, bd, l) ==
    [deltaE |-> [p \in {<<c, white>>, <<c, black>>} |-> IF p[2] = white THEN wd ELSE bd],
     luma |-> [x \in {c} |-> l],
     whiteContrast |-> [x \in {c} |-> wc],
     blackContrast |-> [x \in {c} |-> bc]]

InitAnalyze ==
    /\ pc = "unit"
    /\ baseColors = <<>>
    /\ pantoneColors = <<>>
    /\ cache = FreshCache
    /\ classified = <<>>
    /\ refBaseDelta = 0
    /\ obs = NoObs
    /\ \E c \in AnalyzeChoice :
           /\ \E wc \in ContrastLevels, bc \in ContrastLevels, wd \in DeltaMeasures,
                 bd \in DeltaMeasures, l \in LumaMeasures :
                  math = MeasuredMath(c, wc, bc, wd, bd, l)
           /\ call = [op |-> "analyze", rgbNumber |-> c, done |-> FALSE, result |-> Undefined]
    /\ \E minWhite \in DeltaMinima, minBlack \in DeltaMinima, band \in LumaBands :
           stats = [InitialStats EXCEPT !.refMinWhiteDeltaE = minWhite,
                                        !.refMinBlackDeltaE = minBlack,
                                        !.refMinLuma = band[1],
                                        !.refMaxLuma = band[2]]

AnalyzeCall ==
    /\ call.op = "analyze"
    /\ ~call.done
    /\ call' = [call EXCEPT !.done = TRUE, !.result = analyze(call.rgbNumber)]
    /\ UNCHANGED <<math, pc, baseColors, pantoneColors, cache, stats, classified,
                   refBaseDelta, obs>>

SpecAnalyze == InitAnalyze /\ [][AnalyzeCall]_vars

AnalyzeReturned == call.op = "analyze" /\ call.done

\* The five measurements of the analyzed value and their bands.
Measurements ==
    LET c == call.rgbNumber
    IN  << <<ContrastHex(c, white), 3, 21>>,
           <<ContrastHex(c, black), 3, 21>>,
           <<getDeltaE00(c, white), stats.refMinWhiteDeltaE, 100 * Unit>>,
           <<getDeltaE00(c, black), stats.refMinBlackDeltaE, 100 * Unit>>,
           <<luma(c), stats.refMinLuma, stats.refMaxLuma>> >>

InClosed(m) == m[2] <= m[1] /\ m[1] <= m[3]
InOpen(m) == m[2] < m[1] /\ m[1] < m[3]

\* The constructed colour, or the absence value.
ReturnsColorIff(accepted) ==
    /\ call.result.present <=> accepted
    /\ call.result.present => hexOf(call.result.color) = rgbNumberToHex(call.rgbNumber)
    /\ ~call.result.present => call.result = Undefined

\* C3 (as written): analyze returns the colour if and only if each of the
\* five measurements lies in its closed band.
C3_ClosedBands ==
    AnalyzeReturned => ReturnsColorIff(\A i \in 1 .. 5 : InClosed(Measurements[i]))

\* C3 (amended): analyze returns the constructed colour if and only if each of
\* the five measurements lies strictly inside its band (a value exactly on a
\* band's endpoint is rejected); otherwise it returns the absence value.
C3_OpenBands ==
    AnalyzeReturned => ReturnsColorIff(\A i \in 1 .. 5 : InOpen(Measurements[i]))

\* A value on an endpoint of one band and inside the other four is rejected.
C3_Witness ==
    /\ AnalyzeReturned
    /\ \A i \in 1 .. 5 : InClosed(Measurements[i])
    /\ \E i \in 1 .. 5 : ~InOpen(Measurements[i]) /\ \A k \in (1 .. 5) \ {i} : InOpen(Measurements[k])
    /\ ~call.result.present

----------------------------------------------------------------------------
(* memoize alone, over several runs *)

MemoChoice == {1, 2}

Computations == {Raise} \cup {Ok(colors) : colors \in SeqsUpTo(MemoChoice, MaxCached)}

InitMemo ==
    /\ math = DefaultMath
    /\ pc = "unit"
    /\ baseColors = <<>>
    /\ pantoneColors = <<>>
    /\ cache = FreshCache
    /\ stats = InitialStats
    /\ classified = <<>>
    /\ refBaseDelta = 0
    /\ obs = NoObs
    /\ call = [op |-> "memoize", n |-> 0, id |-> "first", computed |-> Raise,
               before |-> FreshCache, after |-> FreshCache,
               ok |-> FALSE, val |-> <<>>, invoked |-> FALSE,
               written |-> [id \in RoundIds |-> <<>>]]

\* A call memoize(id, computeFn, args); computed is what computeFn(args)
\* returns (or throws) in this run.
MemoizeCall ==
    /\ call.op = "memoize"
    /\ call.n < MaxCalls
    /\ \E id \in RoundIds, computed \in Computations :
           LET m == memoize(cache, id, computed)
           IN  /\ cache' = m.files
               /\ call' = [call EXCEPT
                               !.n = @ + 1, !.id = id, !.computed = computed,
                               !.before = cache, !.after = m.files,
                               !.ok = m.ok, !.val = m.val, !.invoked = m.invoked,
                               !.written = IF m.invoked /\ m.ok
                                           THEN [@ EXCEPT ![id] = computed.val] ELSE @]
    /\ UNCHANGED <<math, pc, baseColors, pantoneColors, stats, classified, refBaseDelta, obs>>

\* The user deletes a cache file between runs.
DeleteCacheFile ==
    /\ call.op = "memoize"
    /\ \E id \in RoundIds :
           /\ cache[id].exists
           /\ cache' = [cache EXCEPT ![id] = NoFile]
    /\ UNCHANGED <<math, pc, baseColors, pantoneColors, stats, classified, refBaseDelta,
                   obs, call>>

NextMemo ==
    \/ MemoizeCall
    \/ DeleteCacheFile

SpecMemo == InitMemo /\ [][NextMemo]_vars

============================================================================
